---- MODULE Spec2Model ----
(***************************************************************************)
(* A model of src/ago.c: a pool of idle threads (thread_idle) that run     *)
(* functions handed over by alib_go through a stack (func_list, arg_list,  *)
(* nfuncs) and a semaphore (sem), with alib_thread_init, alib_thread_wait  *)
(* and alib_thread_end called by one controlling thread.                   *)
(*                                                                         *)
(* Granularity.  A step holds one access to shared state, together with    *)
(* the thread-local statements before it (entering the function, a loop    *)
(* test on the thread's own counter, the return of a task's function).     *)
(* Accesses outside a mutex are steps of their own (lines 88, 128, 184,    *)
(* 215).  A critical section (lines 94-98, 105-108, 218-222, 229-231) is   *)
(* one step: the mutex makes it atomic with respect to every other         *)
(* critical section on the same mutex, and the only unlocked accesses to   *)
(* the data it guards are single reads or writes (nfuncs at line 215,      *)
(* nrunning at line 197).  nthreads is written by the controlling thread   *)
(* alone, which therefore reads it (lines 131, 187, 192) within a step.    *)
(*                                                                         *)
(* A task stands for a (function, argument) pair: func_list[i] = t models  *)
(* func_list[i] and arg_list[i], which are always written and read         *)
(* together.  Task identifiers are interchangeable and are reused once a   *)
(* task has finished and its alib_go call has returned, so that producers  *)
(* can submit for ever; a call takes the least unused identifier.          *)
(* Values the code never reads again (a popped slot of func_list, the      *)
(* locals of a worker after its function returned) are cleared.            *)
(*                                                                         *)
(* Library calls on valid objects succeed (sem_init, pthread_create,       *)
(* sem_post, pthread_join, ...).  A call on a destroyed object and a write *)
(* past the end of func_list are undefined behaviour: the model lets the   *)
(* statement either take its usual effect or stop the process (ub).        *)
(***************************************************************************)
EXTENDS Integers, FiniteSets

\* src/ago.c:40 defines MAX_THREADS as 1024; the model scales it down so that
\* a full and an overfull function stack are reachable.
MAX_THREADS == 2

\* number of threads that call alib_go
NProducers == 2

\* number of task identifiers, and so of tasks in flight at a time: one more
\* than func_list holds, so that a push past the array's end is reachable.
\* It is also the number of modelled slots of func_list, of which those from
\* MAX_THREADS on lie past the array's end.
NTasks == MAX_THREADS + 1

Producers == 1..NProducers
Tasks == 1..NTasks
Workers == 1..MAX_THREADS
Slots == 0..(NTasks - 1)
NoTask == 0

VARIABLES
    nthreads,           \* int nthreads (line 43)
    alib_thread_quit,   \* int alib_thread_quit (line 46)
    nfuncs,             \* int nfuncs (line 60)
    func_list,          \* func_list / arg_list (lines 57-58)
    sem,                \* value of sem_t sem (line 63)
    nrunning,           \* int nrunning (line 66)
    sync,               \* state of sem, nrunning_mutex, idle_condition
    wpc, wcur,          \* thread_idle: position, and the locals func/arg
    ppc, ptask, pret,   \* alib_go: position, arguments, return value
    pafter,             \* history: the call began after alib_thread_end returned 0
    cpc, ci, max_conc,  \* controlling thread: position, local i, parameter
    cret, cop, cphase,  \* its last return value, operation, and lifecycle
    crestart,           \* history: this alib_thread_init call follows alib_thread_end
    ub,                 \* undefined behaviour has stopped the process
    sub, inv, fin,      \* history of each task: alib_go, invocations, finished
    snap, snapHad,      \* history: tasks outstanding when wait / end was called
    nsub, everGo        \* history: successful alib_go calls (saturating), any call

poolVars == <<nthreads, alib_thread_quit, nfuncs, func_list, sem, nrunning, sync>>
workerVars == <<wpc, wcur>>
prodVars == <<ppc, ptask, pret, pafter>>
ctlVars == <<cpc, ci, max_conc, cret, cop, cphase, crestart>>
histVars == <<sub, inv, fin, snap, snapHad, nsub, everGo>>
vars == <<poolVars, workerVars, prodVars, ctlVars, ub, histVars>>

\* a call that has not returned has no return value; one that has, has {r}
NoRet == {}

Init ==
    /\ nthreads = 0
    /\ alib_thread_quit = 0
    /\ nfuncs = 0
    /\ func_list = [i \in Slots |-> NoTask]
    /\ sem = 0
    /\ nrunning = 0
    /\ sync = "uninit"
    /\ wpc = [w \in Workers |-> "none"]
    /\ wcur = [w \in Workers |-> NoTask]
    /\ ppc = [p \in Producers |-> "idle"]
    /\ ptask = [p \in Producers |-> NoTask]
    /\ pret = [p \in Producers |-> NoRet]
    /\ pafter = [p \in Producers |-> FALSE]
    /\ cpc = "idle"
    /\ ci = 0
    /\ max_conc = 0
    /\ cret = NoRet
    /\ cop = "none"
    /\ cphase = "uninit"
    /\ crestart = FALSE
    /\ ub = FALSE
    /\ sub = [t \in Tasks |-> "none"]
    /\ inv = [t \in Tasks |-> 0]
    /\ fin = [t \in Tasks |-> FALSE]
    /\ snap = {}
    /\ snapHad = FALSE
    /\ nsub = 0
    /\ everGo = FALSE

----------------------------------------------------------------------------
\* Helpers

\* the outcomes of a statement: defined, or undefined behaviour that either
\* takes the usual effect or stops the process
Outcome(undefined) == IF undefined THEN {FALSE, TRUE} ELSE {FALSE}

\* a task identifier that no call, stack entry or worker still uses
Free(t) == sub[t] = "none" /\ \A q \in Producers : ptask[q] # t

Least(S) == CHOOSE t \in S : \A u \in S : t <= u

Sat(n, max) == IF n < max THEN n + 1 ELSE max

\* pthread_cond_signal(&idle_condition): wakes the thread blocked in
\* pthread_cond_wait, if there is one
Signalled(pc) == IF pc = "w167" THEN "w168" ELSE pc

----------------------------------------------------------------------------
\* alib_go (lines 209-237), called by producer p with task t

\* return r from alib_go; the task's history is reset once it has both been
\* admitted and finished
GoReturn(p, r) ==
    LET t == ptask[p] IN
    /\ ppc' = [ppc EXCEPT ![p] = "idle"]
    /\ ptask' = [ptask EXCEPT ![p] = NoTask]
    /\ pret' = [pret EXCEPT ![p] = {r}]
    /\ sub' = [sub EXCEPT ![t] = IF r = 0 /\ ~fin[t] THEN "ret0" ELSE "none"]
    /\ inv' = [inv EXCEPT ![t] = IF r = 0 /\ fin[t] THEN 0 ELSE inv[t]]
    /\ fin' = [fin EXCEPT ![t] = FALSE]
    /\ nsub' = IF r = 0 THEN Sat(nsub, MAX_THREADS + 1) ELSE nsub

\* an alib_go that goes on to the push whatever nthreads is (test at line 212
\* left out)
go_call_nocheck(p) ==
    /\ ~ub
    /\ ppc[p] = "idle"
    /\ {t \in Tasks : Free(t)} # {}
    /\ LET t == Least({u \in Tasks : Free(u)}) IN
        /\ ppc' = [ppc EXCEPT ![p] = "g215"]
        /\ ptask' = [ptask EXCEPT ![p] = t]
        /\ pret' = [pret EXCEPT ![p] = NoRet]
        /\ sub' = [sub EXCEPT ![t] = "going"]
    /\ pafter' = [pafter EXCEPT ![p] = (cphase = "ended" /\ cpc = "idle")]
    /\ everGo' = TRUE
    /\ UNCHANGED <<poolVars, workerVars, ctlVars, ub, inv, fin, snap, snapHad, nsub>>

\* the call, and line 212: if(!nthreads) return 1;
go_call(p) ==
    /\ ~ub
    /\ ppc[p] = "idle"
    /\ {t \in Tasks : Free(t)} # {}
    /\ LET t == Least({u \in Tasks : Free(u)}) IN
        IF nthreads = 0
        THEN /\ pret' = [pret EXCEPT ![p] = {1}]
             /\ UNCHANGED <<ppc, ptask, sub>>
        ELSE /\ ppc' = [ppc EXCEPT ![p] = "g215"]
             /\ ptask' = [ptask EXCEPT ![p] = t]
             /\ pret' = [pret EXCEPT ![p] = NoRet]
             /\ sub' = [sub EXCEPT ![t] = "going"]
    /\ pafter' = [pafter EXCEPT ![p] = (cphase = "ended" /\ cpc = "idle")]
    /\ everGo' = TRUE
    /\ UNCHANGED <<poolVars, workerVars, ctlVars, ub, inv, fin, snap, snapHad, nsub>>

\* line 215: if(nfuncs==MAX_THREADS) return 2;
go_check_full(p) ==
    /\ ~ub
    /\ ppc[p] = "g215"
    /\ IF nfuncs = MAX_THREADS
       THEN GoReturn(p, 2)
       ELSE /\ ppc' = [ppc EXCEPT ![p] = "g218"]
            /\ UNCHANGED <<ptask, pret, sub, inv, fin, nsub>>
    /\ UNCHANGED <<poolVars, workerVars, ctlVars, ub, pafter,
                   snap, snapHad, everGo>>

\* lines 218-222: push under func_mutex.  A write at an index >= MAX_THREADS
\* is past the end of func_list.
go_push(p) ==
    /\ ~ub
    /\ ppc[p] = "g218"
    /\ func_list' = [func_list EXCEPT ![nfuncs] = ptask[p]]
    /\ nfuncs' = nfuncs + 1
    /\ ub' \in Outcome(nfuncs >= MAX_THREADS)
    /\ ppc' = [ppc EXCEPT ![p] = "g229"]
    /\ UNCHANGED <<nthreads, alib_thread_quit, sem, nrunning, sync, workerVars,
                   ctlVars, ptask, pret, pafter, histVars>>

\* an increment that is lost (nrunning keeps its value)
go_inc_lost(p) ==
    /\ ~ub
    /\ ppc[p] = "g229"
    /\ ub' \in Outcome(sync = "destroyed")
    /\ ppc' = [ppc EXCEPT ![p] = "g234"]
    /\ UNCHANGED <<poolVars, workerVars, ctlVars, ptask, pret, pafter, histVars>>

\* lines 229-231: nrunning++ under nrunning_mutex
go_inc(p) ==
    /\ ~ub
    /\ ppc[p] = "g229"
    /\ nrunning' = nrunning + 1
    /\ ub' \in Outcome(sync = "destroyed")
    /\ ppc' = [ppc EXCEPT ![p] = "g234"]
    /\ UNCHANGED <<nthreads, alib_thread_quit, nfuncs, func_list, sem, sync,
                   workerVars, ctlVars, ptask, pret, pafter, histVars>>

\* lines 234-236: if(sem_post(&sem)) return 3; return 0;
go_post(p) ==
    /\ ~ub
    /\ ppc[p] = "g234"
    /\ sem' = sem + 1
    /\ ub' \in Outcome(sync = "destroyed")
    /\ GoReturn(p, 0)
    /\ UNCHANGED <<nthreads, alib_thread_quit, nfuncs, func_list, nrunning, sync,
                   workerVars, ctlVars, pafter, snap, snapHad, everGo>>

----------------------------------------------------------------------------
\* thread_idle (lines 77-110), run by worker w

\* the thread created at line 145 reaches sem_wait at line 85
thread_idle_start(w) ==
    /\ ~ub
    /\ wpc[w] = "spawned"
    /\ wpc' = [wpc EXCEPT ![w] = "idle"]
    /\ UNCHANGED <<poolVars, wcur, prodVars, ctlVars, ub, histVars>>

\* line 85: sem_wait(&sem) returns
thread_idle_wait(w) ==
    /\ ~ub
    /\ wpc[w] = "idle"
    /\ sem > 0
    /\ sem' = sem - 1
    /\ wpc' = [wpc EXCEPT ![w] = "woken"]
    /\ UNCHANGED <<nthreads, alib_thread_quit, nfuncs, func_list, nrunning, sync,
                   wcur, prodVars, ctlVars, ub, histVars>>

\* a worker that goes on to the pop whatever the flag says (test at line 88
\* left out)
thread_idle_noquit(w) ==
    /\ ~ub
    /\ wpc[w] = "woken"
    /\ wpc' = [wpc EXCEPT ![w] = "claim"]
    /\ UNCHANGED <<poolVars, wcur, prodVars, ctlVars, ub, histVars>>

\* line 88: if(alib_thread_quit) return NULL;
thread_idle_quit(w) ==
    /\ ~ub
    /\ wpc[w] = "woken"
    /\ wpc' = [wpc EXCEPT ![w] = IF alib_thread_quit # 0 THEN "exited" ELSE "claim"]
    /\ UNCHANGED <<poolVars, wcur, prodVars, ctlVars, ub, histVars>>

\* a pop that reads the top entry but leaves it on the stack (nfuncs-- lost)
thread_idle_pop_keep(w) ==
    /\ ~ub
    /\ wpc[w] = "claim"
    /\ nfuncs >= 1
    /\ LET t == func_list[nfuncs - 1] IN
        /\ wcur' = [wcur EXCEPT ![w] = t]
        /\ inv' = [inv EXCEPT ![t] = Sat(inv[t], 2)]
    /\ wpc' = [wpc EXCEPT ![w] = "run"]
    /\ UNCHANGED <<poolVars, prodVars, ctlVars, ub, sub, fin, snap, snapHad,
                   nsub, everGo>>

\* lines 94-101: pop under func_mutex, then call func(arg).  With nfuncs = 0
\* the read is of func_list[-1], before the array.
thread_idle_pop(w) ==
    /\ ~ub
    /\ wpc[w] = "claim"
    /\ nfuncs' = nfuncs - 1
    /\ IF nfuncs >= 1
       THEN LET t == func_list[nfuncs - 1] IN
            /\ wcur' = [wcur EXCEPT ![w] = t]
            /\ func_list' = [func_list EXCEPT ![nfuncs - 1] = NoTask]
            /\ inv' = [inv EXCEPT ![t] = Sat(inv[t], 2)]
            /\ ub' = FALSE
       ELSE /\ UNCHANGED <<wcur, func_list, inv>>
            /\ ub' = TRUE
    /\ wpc' = [wpc EXCEPT ![w] = "run"]
    /\ UNCHANGED <<nthreads, alib_thread_quit, sem, nrunning, sync,
                   prodVars, ctlVars, sub, fin, snap, snapHad, nsub, everGo>>

\* a completion whose decrement is lost (nrunning keeps its value)
thread_idle_done_nodec(w) ==
    /\ ~ub
    /\ wpc[w] = "run"
    /\ wpc' = [wpc EXCEPT ![w] = "idle"]
    /\ wcur' = [wcur EXCEPT ![w] = NoTask]
    /\ LET t == wcur[w] IN
        /\ fin' = [fin EXCEPT ![t] = (sub[t] # "ret0")]
        /\ inv' = [inv EXCEPT ![t] = IF sub[t] = "ret0" THEN 0 ELSE inv[t]]
        /\ sub' = [sub EXCEPT ![t] = IF sub[t] = "ret0" THEN "none" ELSE sub[t]]
        /\ snap' = snap \ {t}
    /\ UNCHANGED <<poolVars, prodVars, ctlVars, ub, snapHad, nsub, everGo>>

\* lines 101-108: func(arg) returns; nrunning--, and signal idle_condition if
\* it is zero.  The task's history is reset once it has both been admitted
\* and finished.
thread_idle_done(w) ==
    /\ ~ub
    /\ wpc[w] = "run"
    /\ nrunning' = nrunning - 1
    /\ cpc' = IF nrunning' = 0 THEN Signalled(cpc) ELSE cpc
    /\ wpc' = [wpc EXCEPT ![w] = "idle"]
    /\ wcur' = [wcur EXCEPT ![w] = NoTask]
    /\ LET t == wcur[w] IN
        /\ fin' = [fin EXCEPT ![t] = (sub[t] # "ret0")]
        /\ inv' = [inv EXCEPT ![t] = IF sub[t] = "ret0" THEN 0 ELSE inv[t]]
        /\ sub' = [sub EXCEPT ![t] = IF sub[t] = "ret0" THEN "none" ELSE sub[t]]
        /\ snap' = snap \ {t}
    /\ UNCHANGED <<nthreads, alib_thread_quit, nfuncs, func_list, sem, sync,
                   prodVars, ci, max_conc, cret, cop, cphase, crestart, ub,
                   snapHad, nsub, everGo>>

----------------------------------------------------------------------------
\* alib_thread_init (lines 122-161), called by the controlling thread

\* the call, line 128: alib_thread_quit=0; and line 131: if(nthreads) return -1;
init_call ==
    /\ ~ub
    /\ cpc = "idle"
    /\ alib_thread_quit' = 0
    /\ cop' = "init"
    /\ crestart' = (cphase = "ended")
    /\ IF nthreads # 0
       THEN /\ cret' = {-1}
            /\ UNCHANGED <<cpc, max_conc>>
       ELSE /\ cret' = NoRet
            /\ cpc' = "i134"
            /\ \E n \in 1..MAX_THREADS : max_conc' = n
    /\ UNCHANGED <<nthreads, nfuncs, func_list, sem, nrunning, sync, workerVars,
                   prodVars, ci, cphase, ub, histVars>>

\* lines 134-141: sem_init(&sem,0,0), the two mutexes and the condition
init_sync ==
    /\ ~ub
    /\ cpc = "i134"
    /\ sem' = 0
    /\ sync' = "ok"
    /\ ci' = 0
    /\ cpc' = "i143"
    /\ UNCHANGED <<nthreads, alib_thread_quit, nfuncs, func_list, nrunning,
                   workerVars, prodVars, max_conc, cret, cop, cphase, crestart,
                   ub, histVars>>

\* lines 143-150: pthread_create(thread_list+i, ...); nthreads++;
init_spawn ==
    /\ ~ub
    /\ cpc = "i143"
    /\ ci < max_conc
    /\ wpc' = [wpc EXCEPT ![ci + 1] = "spawned"]
    /\ nthreads' = nthreads + 1
    /\ ci' = ci + 1
    /\ cpc' = IF ci + 1 < max_conc THEN "i143" ELSE "i154"
    /\ UNCHANGED <<alib_thread_quit, nfuncs, func_list, sem, nrunning, sync,
                   wcur, prodVars, max_conc, cret, cop, cphase, crestart, ub,
                   histVars>>

\* lines 154-160: poll sem_getvalue until sval<=0, then return 0
init_poll ==
    /\ ~ub
    /\ cpc = "i154"
    /\ IF sem <= 0
       THEN cpc' = "idle" /\ cret' = {0} /\ cphase' = "ready"
       ELSE UNCHANGED <<cpc, cret, cphase>>
    /\ UNCHANGED <<poolVars, workerVars, prodVars, ci, max_conc, cop, crestart,
                   ub, histVars>>

----------------------------------------------------------------------------
\* alib_thread_wait (lines 164-171), called on an initialized pool

\* the call, and lines 166-167: lock nrunning_mutex and block in
\* pthread_cond_wait
wait_call ==
    /\ ~ub
    /\ cpc = "idle"
    /\ cphase = "ready"
    /\ cop' = "wait"
    /\ cret' = NoRet
    /\ cpc' = "w167"
    /\ snap' = {t \in Tasks : sub[t] = "ret0"}
    /\ snapHad' = (snap' # {})
    /\ UNCHANGED <<poolVars, workerVars, prodVars, ci, max_conc, cphase, crestart,
                   ub, sub, inv, fin, nsub, everGo>>

\* pthread_cond_wait may return without a signal (POSIX spurious wakeup)
wait_spurious ==
    /\ ~ub
    /\ cpc = "w167"
    /\ cpc' = "w168"
    /\ UNCHANGED <<poolVars, workerVars, prodVars, ci, max_conc, cret, cop,
                   cphase, crestart, ub, histVars>>

\* lines 167-170: pthread_cond_wait returns, unlock, return 0
wait_return ==
    /\ ~ub
    /\ cpc = "w168"
    /\ cpc' = "idle"
    /\ cret' = {0}
    /\ snap' = {}
    /\ snapHad' = FALSE
    /\ UNCHANGED <<poolVars, workerVars, prodVars, ci, max_conc, cop, cphase,
                   crestart, ub, sub, inv, fin, nsub, everGo>>

----------------------------------------------------------------------------
\* alib_thread_end (lines 179-203), called on an initialized pool

\* an alib_thread_end that posts without having set the flag (line 184 left
\* out)
end_call_noflag ==
    /\ ~ub
    /\ cpc = "idle"
    /\ cphase = "ready"
    /\ cop' = "end"
    /\ cret' = NoRet
    /\ ci' = 0
    /\ cpc' = "e187"
    /\ snap' = {wcur[w] : w \in {v \in Workers : wpc[v] = "run"}}
    /\ snapHad' = (snap' # {})
    /\ UNCHANGED <<poolVars, workerVars, prodVars, max_conc, cphase, crestart, ub,
                   sub, inv, fin, nsub, everGo>>

\* the call, and line 184: alib_thread_quit=1;
end_call ==
    /\ ~ub
    /\ cpc = "idle"
    /\ cphase = "ready"
    /\ cop' = "end"
    /\ cret' = NoRet
    /\ alib_thread_quit' = 1
    /\ ci' = 0
    /\ cpc' = "e187"
    /\ snap' = {wcur[w] : w \in {v \in Workers : wpc[v] = "run"}}
    /\ snapHad' = (snap' # {})
    /\ UNCHANGED <<nthreads, nfuncs, func_list, sem, nrunning, sync, workerVars,
                   prodVars, max_conc, cphase, crestart, ub,
                   sub, inv, fin, nsub, everGo>>

\* lines 187-189: for(i=0;i<nthreads;i++) sem_post(&sem);
end_post ==
    /\ ~ub
    /\ cpc = "e187"
    /\ ci < nthreads
    /\ sem' = sem + 1
    /\ ci' = IF ci + 1 < nthreads THEN ci + 1 ELSE 0
    /\ cpc' = IF ci + 1 < nthreads THEN "e187" ELSE "e192"
    /\ UNCHANGED <<nthreads, alib_thread_quit, nfuncs, func_list, nrunning, sync,
                   workerVars, prodVars, max_conc, cret, cop, cphase, crestart,
                   ub, histVars>>

\* a join loop that does not wait for the thread to exit
end_join_nowait ==
    /\ ~ub
    /\ cpc = "e192"
    /\ ci < nthreads
    /\ ci' = IF ci + 1 < nthreads THEN ci + 1 ELSE 0
    /\ cpc' = IF ci + 1 < nthreads THEN "e192" ELSE "e197"
    /\ UNCHANGED <<poolVars, workerVars, prodVars, max_conc, cret, cop, cphase,
                   crestart, ub, histVars>>

\* lines 192-194: for(i=0;i<nthreads;i++) pthread_join(thread_list[i], NULL);
end_join ==
    /\ ~ub
    /\ cpc = "e192"
    /\ ci < nthreads
    /\ wpc[ci + 1] = "exited"
    /\ ci' = IF ci + 1 < nthreads THEN ci + 1 ELSE 0
    /\ cpc' = IF ci + 1 < nthreads THEN "e192" ELSE "e197"
    /\ UNCHANGED <<poolVars, workerVars, prodVars, max_conc, cret, cop, cphase,
                   crestart, ub, histVars>>

\* lines 197-202: nrunning=0; destroy sem, nrunning_mutex, idle_condition;
\* return 0
end_cleanup ==
    /\ ~ub
    /\ cpc = "e197"
    /\ nrunning' = 0
    /\ sync' = "destroyed"
    /\ cpc' = "idle"
    /\ cret' = {0}
    /\ cphase' = "ended"
    /\ snap' = {}
    /\ snapHad' = FALSE
    /\ UNCHANGED <<nthreads, alib_thread_quit, nfuncs, func_list, sem, workerVars,
                   prodVars, ci, max_conc, cop, crestart, ub,
                   sub, inv, fin, nsub, everGo>>

----------------------------------------------------------------------------
\* Specifications

ProducerStep(p) ==
    \/ go_check_full(p)
    \/ go_push(p)
    \/ go_inc(p)
    \/ go_post(p)

WorkerStep(w) ==
    \/ thread_idle_start(w)
    \/ thread_idle_wait(w)
    \/ thread_idle_quit(w)
    \/ thread_idle_pop(w)
    \/ thread_idle_done(w)

ControlStep ==
    \/ init_sync
    \/ init_spawn
    \/ init_poll
    \/ wait_return
    \/ end_post
    \/ end_join
    \/ end_cleanup

\* every step except a spurious wakeup
Step ==
    \/ \E p \in Producers : go_call(p)
    \/ \E p \in Producers : go_check_full(p)
    \/ \E p \in Producers : go_push(p)
    \/ \E p \in Producers : go_inc(p)
    \/ \E p \in Producers : go_post(p)
    \/ \E w \in Workers : thread_idle_start(w)
    \/ \E w \in Workers : thread_idle_wait(w)
    \/ \E w \in Workers : thread_idle_quit(w)
    \/ \E w \in Workers : thread_idle_pop(w)
    \/ \E w \in Workers : thread_idle_done(w)
    \/ init_call
    \/ init_sync
    \/ init_spawn
    \/ init_poll
    \/ wait_call
    \/ wait_return
    \/ end_call
    \/ end_post
    \/ end_join
    \/ end_cleanup

Next == Step \/ wait_spurious

Spec == Init /\ [][Next]_vars

\* pthread_cond_wait returns only when signalled
SpecNoSpurious == Init /\ [][Step]_vars

\* Every thread that is inside a call keeps being scheduled, and every task
\* returns.  No thread is obliged to make a new call, and a spurious wakeup
\* is never obliged to happen.
FairSpec ==
    /\ Spec
    /\ \A p \in Producers : WF_vars(ProducerStep(p))
    /\ \A w \in Workers : WF_vars(WorkerStep(w))
    /\ WF_vars(ControlStep)

----------------------------------------------------------------------------
\* Claims

\* the controlling thread is inside alib_thread_wait
InWait == cpc \in {"w167", "w168"}

\* no alib_go call is in progress
ProducersIdle == \A p \in Producers : ppc[p] = "idle"

\* alib_thread_end has been called
EndCalled == cpc \in {"e187", "e192", "e197"} \/ cphase = "ended"

\* C1: alib_thread_wait, called on a pool of N workers after k alib_go calls
\* (1 <= k <= N) have returned 0 and with no further alib_go call made,
\* eventually returns.
C1_WaitReturnsAfterSubmits ==
    []((InWait /\ nsub >= 1 /\ nsub <= nthreads /\ []ProducersIdle) => <>(~InWait))

\* C2: alib_thread_wait, called on an initialized pool to which no alib_go
\* call is ever made, eventually returns.
C2_WaitReturnsWhenIdle ==
    []((InWait /\ []~everGo) => <>(~InWait))

\* the pool is initialized: alib_thread_init has returned 0 and
\* alib_thread_end has not been called
Initialized == cphase = "ready" /\ ~EndCalled

\* C3: when alib_thread_wait returns, every task whose alib_go call had
\* returned 0 before the wait call began has finished executing.
C3_WaitIsBarrier == [][wait_return => snap = {}]_vars

\* C4: on an initialized pool, nrunning = 0 implies that no worker is
\* between claiming a task and finishing it and that nfuncs = 0.
C4_ZeroMeansIdle ==
    (Initialized /\ nrunning = 0) =>
        (nfuncs = 0 /\ \A w \in Workers : wpc[w] # "run")

\* C5: if alib_thread_end is never called (and the process keeps running),
\* every task whose alib_go call returned 0 is eventually invoked by a
\* worker.
C5_AdmittedTaskRuns ==
    \A t \in Tasks :
        []((sub[t] = "ret0" /\ inv[t] = 0 /\ [](~EndCalled /\ ~ub))
              => <>(inv[t] = 1))

\* the stack slots and the workers that hold task t
OnStack(t) == {i \in Slots : i < nfuncs /\ func_list[i] = t}
Claimers(t) == {w \in Workers : wpc[w] = "run" /\ wcur[w] = t}

\* C6: every pushed task is held by at most one stack slot or worker, is
\* off the stack once a worker has popped it, and is invoked at most once.
C6_ClaimedOnce ==
    \A t \in Tasks :
        /\ Cardinality(OnStack(t)) + Cardinality(Claimers(t)) <= 1
        /\ inv[t] <= 1
        /\ inv[t] = 1 => OnStack(t) = {}

\* C6 witness: two workers run two different tasks at the same time.
C6_Witness ==
    \E v, w \in Workers :
        /\ v # w
        /\ wpc[v] = "run" /\ wpc[w] = "run"
        /\ wcur[v] # wcur[w]
        /\ inv[wcur[v]] = 1 /\ inv[wcur[w]] = 1

\* C7: after alib_thread_init(N) the function stack never holds more than N
\* entries.
C7_PendingAtMostN == cphase = "ready" => nfuncs <= nthreads

\* C8: an alib_go call made after alib_thread_end returned 0 returns 1 at
\* the nthreads check, without reaching the push, the increment or the post.
C8_GoAfterEndFails ==
    \A p \in Producers : pafter[p] => (ppc[p] = "idle" /\ pret[p] = {1})

\* C9: an alib_thread_init call made after alib_thread_end returned 0
\* returns a non-negative value, with the pool initialized again.
C9_RestartSucceeds ==
    (cop = "init" /\ crestart /\ cpc = "idle") =>
        (cphase = "ready" /\ \A r \in cret : r >= 0)

\* C10: when alib_thread_end has joined the workers (and ever after it has
\* returned), every task that a worker had claimed when it was called has
\* finished, and no worker is executing a task.
C10_EndWaitsForClaimed ==
    (cpc = "e197" \/ cphase = "ended") =>
        (snap = {} /\ \A w \in Workers : wpc[w] # "run")

\* C10 witness: alib_thread_end was called while a worker was executing a
\* task, and has joined every worker.
C10_Witness == cpc = "e197" /\ snapHad

\* the workers that have passed the test at line 88 and not yet popped, and
\* the workers that have popped a task and not yet decremented nrunning
Claiming == {w \in Workers : wpc[w] = "claim"}
Executing == {w \in Workers : wpc[w] = "run"}

\* C11 (as stated): once alib_thread_end has set alib_thread_quit to 1, no
\* worker pops an entry from the function stack in any later state.
C11_NoClaimAfterQuit ==
    [][(EndCalled /\ alib_thread_quit = 1) =>
          \A w \in Workers : ~(wpc[w] = "claim" /\ wpc'[w] = "run")]_vars

\* C11 (amended): while alib_thread_quit is 1, no worker passes the test at
\* line 88: a worker that wakes from the semaphore under the flag exits
\* without touching nfuncs or the stack, so the only pops under the flag are
\* by workers that had passed the test before the flag was set.
C11_NoNewClaimAfterQuit ==
    [][alib_thread_quit = 1 =>
          \A w \in Workers :
              /\ wpc'[w] = "claim" => wpc[w] = "claim"
              /\ (wpc[w] = "woken" /\ wpc'[w] # "woken") =>
                    (wpc'[w] = "exited" /\ nfuncs' = nfuncs
                       /\ func_list' = func_list)]_vars

\* C11 witness: under the flag one worker has exited and left an entry on
\* the stack, while another worker, past the test, is about to pop.
C11_Witness ==
    /\ alib_thread_quit = 1
    /\ nfuncs >= 1
    /\ \E w \in Workers : wpc[w] = "exited"
    /\ Claiming # {}

\* the alib_go calls that have pushed their task and not yet incremented
\* nrunning
Unaccounted == {p \in Producers : ppc[p] = "g229"}

\* C12: nrunning is non-negative in every reachable state, under every
\* interleaving of alib_go calls and worker completions.
C12_RunningNonNegative == nrunning >= 0

\* C12 witness: a worker is executing a task whose alib_go call has not yet
\* incremented nrunning, so its decrement can come before that increment.
C12_Witness ==
    \E w \in Executing : \E p \in Unaccounted :
        wcur[w] = ptask[p] /\ nrunning >= 1

\* C13: with nthreads = 0 every alib_go call returns 1 at line 212 and
\* leaves the function stack, nfuncs, nrunning and the semaphore as they
\* were (empty and zero).
C13_GoUninitialized ==
    nthreads = 0 =>
        /\ \A p \in Producers : ppc[p] = "idle" /\ pret[p] \subseteq {1}
        /\ func_list = [i \in Slots |-> NoTask]
        /\ nfuncs = 0 /\ nrunning = 0 /\ sem = 0

\* C13 witness: an alib_go call on the uninitialized pool has returned 1.
C13_Witness ==
    /\ nthreads = 0
    /\ cphase = "uninit"
    /\ \E p \in Producers : pret[p] = {1}

\* C14: an alib_thread_init call that fails because nthreads # 0 leaves
\* every pool variable, alib_thread_quit included, and every worker as it
\* was before the call.
C14_FailedInitNoEffect ==
    [][(init_call /\ nthreads # 0) => UNCHANGED <<poolVars, workerVars>>]_vars

\* C15: once alib_thread_init has returned 0, every thread it created is
\* at (or past) its sem_wait; none is still on its way there.
C15_InitWaitsForWorkers ==
    cphase = "ready" => \A w \in Workers : wpc[w] # "spawned"

\* C16: alib_thread_init, when it returns from the poll at lines 154-160
\* (success), returns the number of threads it created.
C16_InitReturnsCount ==
    [][(init_poll /\ cpc' = "idle") => cret' = {nthreads}]_vars

\* alib_thread_end has been called and has not returned
InEnd == cpc \in {"e187", "e192", "e197"}

C17_EndTerminatesUnlessStopped ==
    []((InEnd /\ []~ub) =>
          <>(cphase = "ended" /\ \A w \in Workers : wpc[w] \in {"none", "exited"}))

\* C18: with producers calling alib_go concurrently, nfuncs never exceeds
\* MAX_THREADS, and a producer about to write func_list[nfuncs] finds
\* nfuncs < MAX_THREADS.
C18_PushWithinCapacity ==
    /\ nfuncs <= MAX_THREADS
    /\ \A p \in Producers : ppc[p] = "g218" => nfuncs < MAX_THREADS

\* C19: nfuncs is never negative, and the stack holds at least one entry
\* for every worker that has passed the test at line 88 and is about to
\* execute nfuncs--.
C19_PopNonEmpty ==
    /\ nfuncs >= 0
    /\ Cardinality(Claiming) <= nfuncs

\* C19 witness: alib_thread_end has set the flag and posted a token that
\* is not backed by a push, while a worker past the test is about to pop.
C19_Witness ==
    /\ cpc \in {"e187", "e192"}
    /\ sem >= 1
    /\ nfuncs = 1
    /\ Cardinality(Claiming) = 1

\* C20: from the return of alib_thread_init to the reset in
\* alib_thread_end, nrunning = nfuncs + (workers that have popped a task and
\* not yet decremented) - (alib_go calls that have pushed and not yet
\* incremented).
C20_RunningAccount ==
    cphase = "ready" =>
        nrunning = nfuncs + Cardinality(Executing) - Cardinality(Unaccounted)

\* C20 witness: a pending task, an executing task and an alib_go call
\* between its push and its increment, all at once.
C20_Witness ==
    /\ cphase = "ready"
    /\ nfuncs >= 1
    /\ Executing # {}
    /\ Unaccounted # {}
    /\ nrunning >= 1

====
